---- MODULE Spec2Model ----
(***************************************************************************)
(* Model of the stream cache of internal/cache (streamCache[T]): the      *)
(* index of cacheItems, the statistics, the event routine, the cleanup    *)
(* routine and the producer goroutines started by Get, List and Query.    *)
(*                                                                         *)
(* Every section of code that runs between a Lock/RLock and its Unlock is *)
(* one atomic action; the steps a goroutine takes outside the lock (the   *)
(* isExpired test of Get, the select that sends, the deferred close) are  *)
(* actions of their own, so other goroutines interleave between them.     *)
(* Time is a discrete clock; one unit is one CleanupInterval.             *)
(* The Manager that builds and closes the session and message caches is  *)
(* modelled by its started flag and the caches it has built.              *)
(***************************************************************************)
EXTENDS Integers, Sequences, FiniteSets, TLC

-----------------------------------------------------------------------------
(* Bounds of the model.  The configuration values are scaled down: one    *)
(* clock unit is one CleanupInterval and TTL is counted in those units.   *)

MaxTime == 2
TTL == 1
BufferSize == 1
MaxCalls == 1
MaxEvents == 2
MaxQueue == 1
MaxInvalidate == 1
\* config.MaxItems, scaled down; no code of the cache reads it.
MaxItems == 1
\* Calls of Manager.Start, and of Manager.Stop.
MaxManagerCalls == 2
\* Goroutines that call ContextCache.Get at the same time.
MaxThreads == 2
\* cc.ttl of the ContextCache, in ticks.
ContextTTL == 1

-----------------------------------------------------------------------------
(* Entities, events, filters *)

NoID == ""
Keys == {"a", "b"}
Ids == Keys \cup {NoID}

\* The entity T: a struct with an ID field and one filterable field.
Entity(id, role) == [ID |-> id, Role |-> role]
ZeroT == Entity("", "")

CreatedEvent == "created"
UpdatedEvent == "updated"
DeletedEvent == "deleted"

\* The events the source sends in this model; Entity(NoID, _) is a payload
\* from which extractID reads no ID.
Event(type, payload) == [Type |-> type, Payload |-> payload]
Events == { Event(CreatedEvent, Entity("a", "user")),
            Event(CreatedEvent, Entity("b", "user")),
            Event(CreatedEvent, Entity(NoID, "user")),
            Event(UpdatedEvent, Entity("a", "assistant")),
            Event(DeletedEvent, Entity("a", "user")) }

FilterEquals == "eq"
FilterNotEquals == "ne"
FilterGreater == "gt"
FilterIn == "in"
FilterNotIn == "nin"
FilterLess == "lt"
FilterContains == "contains"

Filter(f, op, v) == [Field |-> f, Operator |-> op, Value |-> v]

\* The filter lists a caller passes to List / Query in this model.
FilterSets ==
    { <<>>,
      <<Filter("Role", FilterEquals, "user")>>,
      <<Filter("Role", FilterNotEquals, "user")>>,
      <<Filter("Role", FilterGreater, "assistant")>>,
      <<Filter("role", FilterEquals, "user")>>,
      <<Filter("ID", FilterEquals, "a"), Filter("Role", FilterEquals, "user")>> }

ErrNil == "nil"
ErrCacheMiss == "cache miss"

-----------------------------------------------------------------------------
VARIABLES
    now,          \* the wall clock (time.Now)
    items,        \* c.items: key -> its cacheItem, NoItem = no entry
    stats,        \* c.stats
    eventSub,     \* the events buffered in the c.eventSub channel
    srcClosed,    \* the event source closed c.eventSub
    done,         \* c.done is closed
    eventDone,    \* c.eventDone is closed
    crashed,      \* the process panicked
    evPc,         \* eventRoutine: "run" or "exit"
    clPc,         \* cleanupRoutine: "run" or "exit"
    tick,         \* a tick is waiting in c.cleanup.C
    tickerOn,     \* the ticker has not been stopped
    calls,        \* the Get / List / Query calls made, with their producers
    published,    \* number of events the source has sent
    ingested,     \* number of events handleEvent has been called with
    invalidated,  \* number of Invalidate calls
    lastOp,       \* per key, the last operation applied to the index
    mgr,          \* the Manager: started, the caches it built, the Close calls it made
    cc            \* the ContextCache: its map, the holders of cc.mu, the Get calls

\* The variables of the cache, and all variables.
cacheVars == <<now, items, stats, eventSub, srcClosed, done, eventDone, crashed,
               evPc, clPc, tick, tickerOn, calls, published, ingested, invalidated, lastOp>>
vars == <<cacheVars, mgr, cc>>

lifeVars == <<srcClosed, done, eventDone, crashed, evPc, clPc, tickerOn>>
countVars == <<published, ingested, invalidated>>

CallIds == 1..MaxCalls

-----------------------------------------------------------------------------
(* Pure helpers of streamCache *)

\* A cacheItem, and the absence of one.  handleEvent allocates a new cacheItem
\* for every Created/Updated event, and Get keeps the pointer it read: a call
\* holds a copy of the item's immutable fields and the flag live, which says
\* that the item it points to is still the one in c.items.
NoItem == [present |-> FALSE, data |-> ZeroT, timestamp |-> 0, version |-> 0, hits |-> 0]

\* extractID: the ID field of the payload ("" when there is none).
extractID(payload) == payload.ID

\* An expiry test that lets every item through.
isExpiredNever(item, t) == FALSE

\* isExpired: time.Since(item.timestamp) > c.config.TTL
isExpired(item, t) == t - item.timestamp > TTL

\* reflect FieldByName: the struct fields of T.
HasField(data, field) == field \in DOMAIN data
FieldValue(data, field) == data[field]

\* matchesFilter: eq and ne compare by DeepEqual, every other operator matches.
matchesFilter(value, filter) ==
    CASE filter.Operator = FilterEquals -> value = filter.Value
      [] filter.Operator = FilterNotEquals -> value # filter.Value
      [] OTHER -> TRUE

\* A match in which a filter naming a field T does not have fails.
matchesFiltersStrict(data, filters) ==
    \A i \in 1..Len(filters) :
        /\ HasField(data, filters[i].Field)
        /\ matchesFilter(FieldValue(data, filters[i].Field), filters[i])

\* matchesFilters: a filter naming a field T does not have is skipped.
matchesFilters(data, filters) ==
    \A i \in 1..Len(filters) :
        HasField(data, filters[i].Field) =>
            matchesFilter(FieldValue(data, filters[i].Field), filters[i])

\* The body of List's loop over c.items: the data of every unexpired match.
ListResults(its, t, filters) ==
    { its[k].data : k \in { k \in Keys : /\ its[k].present
                                         /\ ~isExpired(its[k], t)
                                         /\ matchesFilters(its[k].data, filters) } }

-----------------------------------------------------------------------------
(* Initial state: NewStreamCache with an event subscriber *)

\* A Query value (its Sort field is not modelled), and the zero Query.
Query(fs, limit, offset) == [Filters |-> fs, Limit |-> limit, Offset |-> offset]
NoQuery == Query(<<>>, 0, 0)

NoCall == [kind |-> "none", pc |-> "none", id |-> NoID, filters |-> <<>>,
           query |-> NoQuery,
           ctxDone |-> FALSE, item |-> NoItem, live |-> FALSE, results |-> {},
           innerPc |-> "none", innerBuf |-> <<>>, innerClosed |-> FALSE,
           held |-> <<>>,
           buf |-> <<>>, closed |-> FALSE, recv |-> <<>>,
           seen |-> 0, quiet |-> FALSE]

\* The two caches of a Manager, and a Manager that has not been started: gen
\* numbers the pairs of caches it has built, closes counts the calls of Close
\* it made on each, starts and stops count the calls of Start and Stop,
\* closedAt is the number of events the source had sent when the caches were
\* closed, and messageService tells whether NewManager was given a message
\* service (TRUE) or nil (FALSE).
CacheKinds == {"sessions", "messages"}
NoManager == [started |-> FALSE, gen |-> 0,
              closes |-> [k \in CacheKinds |-> [g \in 1..MaxManagerCalls |-> 0]],
              starts |-> 0, stops |-> 0, closedAt |-> 0, messageService |-> TRUE]

\* The ContextCache of the LSP context enhancer after NewContextCacheWithTTL:
\* cache is the map (an absent key has present = FALSE), readers are the
\* goroutines that hold cc.mu.RLock, th is the position of each goroutine in
\* Get and what it returned, fatal tells that the runtime stopped the process.
Threads == 1..MaxThreads
ContextKeys == {"a", "b"}
FilePaths == {"f", "g"}
Patterns == {"", "a"}
NoEntry == [present |-> FALSE, FilePath |-> "", ExpiresAt |-> 0]
NoThread == [pc |-> "idle", key |-> "", ret |-> "none"]
NoContextCache == [cache |-> [k \in ContextKeys |-> NoEntry],
                   readers |-> {},
                   th |-> [t \in Threads |-> NoThread],
                   fatal |-> FALSE]

NoOp == [op |-> "none", data |-> ZeroT, at |-> 0, n |-> 0, repeat |-> FALSE]

Init ==
    /\ now = 0
    /\ items = [k \in Keys |-> NoItem]
    /\ stats = [HitCount |-> 0, MissCount |-> 0, ItemCount |-> 0, LastCleanup |-> 0]
    /\ eventSub = <<>>
    /\ srcClosed = FALSE
    /\ done = FALSE
    /\ eventDone = FALSE
    /\ crashed = FALSE
    /\ evPc = "run"
    /\ clPc = "run"
    /\ tick = FALSE
    /\ tickerOn = TRUE
    /\ calls = [c \in CallIds |-> NoCall]
    /\ published = 0
    /\ ingested = 0
    /\ invalidated = 0
    /\ lastOp = [k \in Keys |-> NoOp]
    /\ mgr = NoManager
    /\ cc = NoContextCache

\* The goroutine of the call has not reached the end of its select yet.
BeforeSend(call) == call.pc \notin {"none", "close", "done"}

\* An operation on the index that is not an ingested event, or a new event,
\* ends the quiet period of every call that has not sent its value yet.
Disturb(cs) ==
    [c \in CallIds |-> IF BeforeSend(cs[c]) THEN [cs[c] EXCEPT !.quiet = FALSE] ELSE cs[c]]

\* The entries of the keys ks leave c.items: a Get that holds one of them now
\* holds an item that is no longer in the map.
Detach(cs, ks) ==
    [c \in CallIds |-> IF cs[c].id \in ks THEN [cs[c] EXCEPT !.live = FALSE] ELSE cs[c]]

-----------------------------------------------------------------------------
(* The clock and the event source *)

\* Time passes; the ticker delivers a tick every CleanupInterval (its
\* channel holds one tick).
Tick ==
    /\ ~crashed
    /\ now < MaxTime
    /\ now' = now + 1
    /\ tick' = (tick \/ tickerOn)
    /\ UNCHANGED <<mgr, cc, items, stats, eventSub, calls, lastOp, lifeVars, countVars>>

\* The event source sends one event on the channel it returned.
Publish(e) ==
    /\ ~crashed
    /\ ~srcClosed
    /\ published < MaxEvents
    /\ Len(eventSub) < MaxQueue
    /\ eventSub' = Append(eventSub, e)
    /\ published' = published + 1
    /\ calls' = Disturb(calls)
    /\ UNCHANGED <<mgr, cc, now, items, stats, tick, lastOp, lifeVars, ingested, invalidated>>

\* The event source closes its channel.
CloseSource ==
    /\ ~crashed
    /\ ~srcClosed
    /\ srcClosed' = TRUE
    /\ UNCHANGED <<mgr, cc, now, items, stats, eventSub, tick, calls, lastOp, countVars,
                   done, eventDone, crashed, evPc, clPc, tickerOn>>

-----------------------------------------------------------------------------
(* Event ingestion *)

\* handleEvent's Created/Updated branch: a new cacheItem that inherits the
\* hits of the entry it replaces.
NewItem(payload, t, existing) ==
    [present |-> TRUE, data |-> payload, timestamp |-> t, version |-> t,
     hits |-> IF existing.present THEN existing.hits ELSE 0]

\* The Created/Updated branch of handleEvent.
Upsert(its, count, id, payload, t) ==
    [items |-> [its EXCEPT ![id] = NewItem(payload, t, its[id])],
     count |-> IF its[id].present THEN count ELSE count + 1]

\* A Deleted branch that decrements ItemCount without looking for the entry.
RemoveUnchecked(its, count, id) ==
    [items |-> [its EXCEPT ![id] = NoItem], count |-> count - 1]

\* The Deleted branch of handleEvent.
Remove(its, count, id) ==
    [items |-> [its EXCEPT ![id] = NoItem],
     count |-> IF its[id].present THEN count - 1 ELSE count]

\* A handleEvent that ignores Deleted events.
ApplyEventNoDelete(its, count, event, t) ==
    LET id == extractID(event.Payload) IN
    IF id # NoID /\ event.Type \in {CreatedEvent, UpdatedEvent}
    THEN Upsert(its, count, id, event.Payload, t)
    ELSE [items |-> its, count |-> count]

\* handleEvent, under c.mu.Lock: the index and ItemCount after the event.
ApplyEvent(its, count, event, t) ==
    LET id == extractID(event.Payload) IN
    IF id = NoID THEN [items |-> its, count |-> count]
    ELSE IF event.Type \in {CreatedEvent, UpdatedEvent}
    THEN Upsert(its, count, id, event.Payload, t)
    ELSE IF event.Type = DeletedEvent
    THEN Remove(its, count, id)
    ELSE [items |-> its, count |-> count]

\* What the event means for its key: the record of the last operation, with
\* the number n of the event and whether it repeats the payload already cached.
OpOf(event, t, n, existing) ==
    IF event.Type = DeletedEvent
    THEN [op |-> "delete", data |-> ZeroT, at |-> 0, n |-> n, repeat |-> FALSE]
    ELSE [op |-> "upsert", data |-> event.Payload, at |-> t, n |-> n,
          repeat |-> existing.present /\ existing.data = event.Payload]

\* eventRoutine: the select receives an event and handleEvent applies it.
EventRoutineHandle ==
    /\ ~crashed
    /\ evPc = "run"
    /\ eventSub # <<>>
    /\ LET event == Head(eventSub)
           id == extractID(event.Payload)
           r == ApplyEvent(items, stats.ItemCount, event, now)
       IN /\ items' = r.items
          /\ stats' = [stats EXCEPT !.ItemCount = r.count]
          /\ calls' = IF id = NoID THEN calls ELSE Detach(calls, {id})
          /\ lastOp' = IF id = NoID THEN lastOp ELSE [lastOp EXCEPT ![id] = OpOf(event, now, ingested + 1, items[id])]
    /\ eventSub' = Tail(eventSub)
    /\ ingested' = ingested + 1
    /\ UNCHANGED <<mgr, cc, now, tick, lifeVars, published, invalidated>>

\* The event routine returns on eventDone, and ignores the close of its source.
EventRoutineExitDoneOnly ==
    /\ ~crashed
    /\ evPc = "run"
    /\ eventDone
    /\ evPc' = "exit"
    /\ UNCHANGED <<mgr, cc, now, items, stats, eventSub, tick, calls, lastOp, countVars,
                   srcClosed, done, eventDone, crashed, clPc, tickerOn>>

\* The event routine returns when its source closes, and ignores eventDone.
EventRoutineExitSourceOnly ==
    /\ ~crashed
    /\ evPc = "run"
    /\ srcClosed /\ eventSub = <<>>
    /\ evPc' = "exit"
    /\ UNCHANGED <<mgr, cc, now, items, stats, eventSub, tick, calls, lastOp, countVars,
                   srcClosed, done, eventDone, crashed, clPc, tickerOn>>

\* eventRoutine returns: the channel is closed and drained, or eventDone is closed.
EventRoutineExit ==
    /\ ~crashed
    /\ evPc = "run"
    /\ \/ srcClosed /\ eventSub = <<>>
       \/ eventDone
    /\ evPc' = "exit"
    /\ UNCHANGED <<mgr, cc, now, items, stats, eventSub, tick, calls, lastOp, countVars,
                   srcClosed, done, eventDone, crashed, clPc, tickerOn>>

-----------------------------------------------------------------------------
(* Cleanup, Invalidate, Clear, Close *)

\* A cleanup that also deletes the entries whose age is exactly the TTL.
ExpiredKeysFromTTL(its, t) == { k \in Keys : its[k].present /\ t - its[k].timestamp >= TTL }

\* A cleanup that finds no entry to delete.
NoExpiredKeys(its, t) == {}

\* performCleanup, under c.mu.Lock: every entry older than TTL is deleted.
ExpiredKeys(its, t) == { k \in Keys : its[k].present /\ t - its[k].timestamp > TTL }

\* cleanupRoutine: the select receives a tick and runs performCleanup.
CleanupRoutineTick ==
    /\ ~crashed
    /\ clPc = "run"
    /\ tick
    /\ tick' = FALSE
    /\ LET gone == ExpiredKeys(items, now) IN
        /\ items' = [k \in Keys |-> IF k \in gone THEN NoItem ELSE items[k]]
        /\ stats' = [stats EXCEPT !.ItemCount = @ - Cardinality(gone), !.LastCleanup = now]
        /\ calls' = Detach(calls, gone)
    /\ UNCHANGED <<mgr, cc, now, eventSub, lastOp, lifeVars, countVars>>

\* cleanupRoutine returns once c.done is closed.
CleanupRoutineExit ==
    /\ ~crashed
    /\ clPc = "run"
    /\ done
    /\ clPc' = "exit"
    /\ UNCHANGED <<mgr, cc, now, items, stats, eventSub, tick, calls, lastOp, countVars,
                   srcClosed, done, eventDone, crashed, evPc, tickerOn>>

\* Invalidate(ids...): each id is deleted and ItemCount decremented, present or not.
RECURSIVE InvalidateLoop(_, _, _)
InvalidateLoop(its, count, ids) ==
    IF ids = <<>> THEN [items |-> its, count |-> count]
    ELSE InvalidateLoop(IF Head(ids) \in Keys THEN [its EXCEPT ![Head(ids)] = NoItem] ELSE its,
                        count - 1, Tail(ids))

IdLists == {<<>>} \cup { <<i>> : i \in Ids } \cup { <<i, j>> : i \in Ids, j \in Ids }

Range(seq) == { seq[i] : i \in 1..Len(seq) }

Invalidate(ids) ==
    /\ ~crashed
    /\ invalidated < MaxInvalidate
    /\ invalidated' = invalidated + 1
    /\ LET r == InvalidateLoop(items, stats.ItemCount, ids) IN
        /\ items' = r.items
        /\ stats' = [stats EXCEPT !.ItemCount = r.count]
    /\ lastOp' = [k \in Keys |->
                    IF k \in Range(ids) THEN [NoOp EXCEPT !.op = "invalidate"]
                    ELSE lastOp[k]]
    /\ calls' = Disturb(Detach(calls, Range(ids)))
    /\ UNCHANGED <<mgr, cc, now, eventSub, tick, lifeVars, published, ingested>>

\* Clear: c.items is replaced by an empty map.
Clear ==
    /\ ~crashed
    /\ \E k \in Keys : items[k].present
    /\ items' = [k \in Keys |-> NoItem]
    /\ stats' = [stats EXCEPT !.ItemCount = 0]
    /\ lastOp' = [k \in Keys |-> [NoOp EXCEPT !.op = "invalidate"]]
    /\ calls' = Disturb(Detach(calls, Keys))
    /\ UNCHANGED <<mgr, cc, now, eventSub, tick, lifeVars, countVars>>

\* The body of Close: close(c.done) panics when c.done is already closed.
CloseCache ==
    /\ ~crashed
    /\ IF done
       THEN /\ crashed' = TRUE
            /\ UNCHANGED <<done, eventDone, tickerOn>>
       ELSE /\ done' = TRUE
            /\ eventDone' = TRUE
            /\ tickerOn' = FALSE
            /\ crashed' = FALSE
    /\ UNCHANGED <<now, items, stats, eventSub, tick, calls, lastOp, countVars,
                   srcClosed, evPc, clPc>>

\* Close, called on the cache by its owner.
Close == CloseCache /\ UNCHANGED <<mgr, cc>>

-----------------------------------------------------------------------------
(* Calls: the channel a call returns and the goroutine that feeds it *)

\* A CacheResult; seen counts the events ingested when its data was read.
Result(data, cached, err, ts, version, seen) ==
    [data |-> data, cached |-> cached, err |-> err, ts |-> ts, version |-> version,
     seen |-> seen]

callUnchanged == <<mgr, cc, now, items, stats, eventSub, tick, lastOp, lifeVars, countVars>>

\* The values sent on the call's channel so far: those received, then those buffered.
Emitted(c) == calls[c].recv \o calls[c].buf
EmittedCount(cs, c) == Len(cs[c].recv) + Len(cs[c].buf)

\* Get(ctx, id): the channel is made and the goroutine started.
StartGet(c, id) ==
    /\ ~crashed
    /\ calls[c].kind = "none"
    /\ calls' = [calls EXCEPT ![c] = [NoCall EXCEPT !.kind = "get", !.pc = "lookup",
                                                     !.id = id, !.quiet = (eventSub = <<>>)]]
    /\ UNCHANGED callUnchanged

\* item, exists := c.items[id], under c.mu.RLock.
Lookup(its, id) == IF id \in Keys THEN [its[id] EXCEPT !.hits = 0] ELSE NoItem

GetLookup(c) ==
    /\ ~crashed
    /\ calls[c].kind = "get" /\ calls[c].pc = "lookup"
    /\ calls' = [calls EXCEPT ![c].item = Lookup(items, calls[c].id),
                              ![c].live = Lookup(items, calls[c].id).present,
                              ![c].seen = ingested,
                              ![c].pc = "check"]
    /\ UNCHANGED callUnchanged

\* if exists && !c.isExpired(item), outside the lock.
GetIsHit(call, t) == call.item.present /\ ~isExpired(call.item, t)

GetCheck(c) ==
    /\ ~crashed
    /\ calls[c].kind = "get" /\ calls[c].pc = "check"
    /\ calls' = [calls EXCEPT ![c].pc = IF GetIsHit(calls[c], now) THEN "hit" ELSE "miss"]
    /\ UNCHANGED callUnchanged

\* A Get that sends its value before it unlocks c.mu after item.hits++.
GetHitAndSend(c) ==
    /\ ~crashed
    /\ calls[c].kind = "get" /\ calls[c].pc = "hit"
    /\ Len(calls[c].buf) < BufferSize
    /\ items' = IF calls[c].live
                 THEN [items EXCEPT ![calls[c].id].hits = @ + 1]
                 ELSE items
    /\ stats' = [stats EXCEPT !.HitCount = @ + 1]
    /\ calls' = [calls EXCEPT
                    ![c].buf = Append(@, Result(calls[c].item.data, TRUE, ErrNil,
                                                calls[c].item.timestamp,
                                                calls[c].item.version, calls[c].seen)),
                    ![c].pc = "close", ![c].item = NoItem, ![c].live = FALSE,
                    ![c].seen = 0]
    /\ UNCHANGED <<mgr, cc, now, eventSub, tick, lastOp, lifeVars, countVars>>

\* item.hits++; c.stats.HitCount++, under c.mu.Lock.
GetHit(c) ==
    /\ ~crashed
    /\ calls[c].kind = "get" /\ calls[c].pc = "hit"
    /\ items' = IF calls[c].live
                 THEN [items EXCEPT ![calls[c].id].hits = @ + 1]
                 ELSE items
    /\ stats' = [stats EXCEPT !.HitCount = @ + 1]
    /\ calls' = [calls EXCEPT ![c].pc = "sendHit", ![c].live = FALSE]
    /\ UNCHANGED <<mgr, cc, now, eventSub, tick, lastOp, lifeVars, countVars>>

\* c.stats.MissCount++, under c.mu.Lock.
GetMiss(c) ==
    /\ ~crashed
    /\ calls[c].kind = "get" /\ calls[c].pc = "miss"
    /\ stats' = [stats EXCEPT !.MissCount = @ + 1]
    /\ calls' = [calls EXCEPT ![c].pc = "sendMiss"]
    /\ UNCHANGED <<mgr, cc, now, items, eventSub, tick, lastOp, lifeVars, countVars>>

\* The value Get sends: the item found, or the zero value with ErrCacheMiss.
GetResult(call) ==
    IF call.pc = "sendHit"
    THEN Result(call.item.data, TRUE, ErrNil, call.item.timestamp, call.item.version,
                call.seen)
    ELSE Result(ZeroT, FALSE, ErrCacheMiss, 0, 0, call.seen)

\* The goroutine moves on to next; once it leaves its select for good, the
\* locals it read (item, results) are dead and are dropped from the state.
AfterSelect(call, next) ==
    IF next \in {"close", "done"}
    THEN [call EXCEPT !.pc = next, !.item = NoItem, !.live = FALSE, !.results = {}, !.seen = 0]
    ELSE [call EXCEPT !.pc = next]

\* A select whose ctx.Done case returns without closing the channel.
SelectSendNoClose(c, v, next) ==
    \/ /\ Len(calls[c].buf) < BufferSize
       /\ calls' = [calls EXCEPT ![c] = AfterSelect([calls[c] EXCEPT !.buf = Append(@, v)], next)]
    \/ /\ calls[c].ctxDone
       /\ calls' = [calls EXCEPT ![c] = AfterSelect(calls[c], "done")]

\* select { case resultCh <- v: ; case <-ctx.Done(): return }: either case that
\* can proceed may be chosen.
SelectSend(c, v, next) ==
    \/ /\ Len(calls[c].buf) < BufferSize
       /\ calls' = [calls EXCEPT ![c] = AfterSelect([calls[c] EXCEPT !.buf = Append(@, v)], next)]
    \/ /\ calls[c].ctxDone
       /\ calls' = [calls EXCEPT ![c] = AfterSelect(calls[c], "close")]

\* A Get that stays at its send.
GetAfterSendAgain(call) == call.pc

\* After its one send the goroutine of Get returns.
GetAfterSend(call) == "close"

GetSend(c) ==
    /\ ~crashed
    /\ calls[c].kind = "get" /\ calls[c].pc \in {"sendHit", "sendMiss"}
    /\ SelectSend(c, GetResult(calls[c]), GetAfterSend(calls[c]))
    /\ UNCHANGED callUnchanged

\* defer close(resultCh)
CloseChannel(call) == [call EXCEPT !.closed = TRUE, !.pc = "done"]

ProducerClose(c) ==
    /\ ~crashed
    /\ calls[c].kind # "none" /\ calls[c].pc = "close"
    /\ calls' = [calls EXCEPT ![c] = CloseChannel(calls[c])]
    /\ UNCHANGED callUnchanged

\* List(ctx, filters...): the channel is made and the goroutine started.
StartList(c, fs) ==
    /\ ~crashed
    /\ calls[c].kind = "none"
    /\ calls' = [calls EXCEPT ![c] = [NoCall EXCEPT !.kind = "list", !.pc = "snapshot",
                                                     !.filters = fs]]
    /\ UNCHANGED callUnchanged

\* The loop over c.items, under c.mu.RLock.
ListSnapshot(c) ==
    /\ ~crashed
    /\ calls[c].kind = "list" /\ calls[c].pc = "snapshot"
    /\ calls' = [calls EXCEPT ![c].results = ListResults(items, now, calls[c].filters),
                              ![c].seen = ingested,
                              ![c].pc = "send"]
    /\ UNCHANGED callUnchanged

\* The value List sends.  Its Timestamp (time.Now() at the send) is not
\* modelled: nothing reads it.
ListResult(call) == Result(call.results, TRUE, ErrNil, 0, 0, call.seen)

\* A List that stays at its send.
ListAfterSendAgain == "send"

\* After its one send the goroutine of List returns.
ListAfterSend == "close"

ListSend(c) ==
    /\ ~crashed
    /\ calls[c].kind = "list" /\ calls[c].pc = "send"
    /\ SelectSend(c, ListResult(calls[c]), ListAfterSend)
    /\ UNCHANGED callUnchanged

\* Query(ctx, query): the goroutine calls c.List(ctx, query.Filters...) and
\* forwards what that channel delivers; Sort, Limit and Offset are not read.
Queries == { [Filters |-> fs, Limit |-> l, Offset |-> 0] :
                fs \in {<<>>, <<Filter("Role", FilterEquals, "user")>>}, l \in {0, 1} }

StartQuery(c, q) ==
    /\ ~crashed
    /\ calls[c].kind = "none"
    /\ calls' = [calls EXCEPT ![c] = [NoCall EXCEPT !.kind = "query", !.pc = "range",
                                                     !.filters = q.Filters,
                                                     !.query = q,
                                                     !.innerPc = "snapshot"]]
    /\ UNCHANGED callUnchanged

QueryInnerSnapshot(c) ==
    /\ ~crashed
    /\ calls[c].kind = "query" /\ calls[c].innerPc = "snapshot"
    /\ calls' = [calls EXCEPT ![c].results = ListResults(items, now, calls[c].filters),
                              ![c].seen = ingested,
                              ![c].innerPc = "send"]
    /\ UNCHANGED callUnchanged

QueryInnerSend(c) ==
    /\ ~crashed
    /\ calls[c].kind = "query" /\ calls[c].innerPc = "send"
    /\ \/ /\ Len(calls[c].innerBuf) < BufferSize
          /\ calls' = [calls EXCEPT ![c].innerBuf = Append(@, ListResult(calls[c])),
                                    ![c].results = {},
                                    ![c].seen = 0,
                                    ![c].innerPc = "close"]
       \/ /\ calls[c].ctxDone
          /\ calls' = [calls EXCEPT ![c].results = {}, ![c].seen = 0, ![c].innerPc = "close"]
    /\ UNCHANGED callUnchanged

QueryInnerClose(c) ==
    /\ ~crashed
    /\ calls[c].kind = "query" /\ calls[c].innerPc = "close"
    /\ calls' = [calls EXCEPT ![c].innerClosed = TRUE, ![c].innerPc = "done"]
    /\ UNCHANGED callUnchanged

\* for result := range results: the next value, or the end of the loop once
\* the inner channel is closed and drained.
QueryRange(c) ==
    /\ ~crashed
    /\ calls[c].kind = "query" /\ calls[c].pc = "range"
    /\ \/ /\ calls[c].innerBuf # <<>>
          /\ calls' = [calls EXCEPT ![c].held = <<Head(calls[c].innerBuf)>>,
                                    ![c].innerBuf = Tail(@),
                                    ![c].pc = "forward"]
       \/ /\ calls[c].innerBuf = <<>> /\ calls[c].innerClosed
          /\ calls' = [calls EXCEPT ![c].pc = "close"]
    /\ UNCHANGED callUnchanged

QueryForward(c) ==
    /\ ~crashed
    /\ calls[c].kind = "query" /\ calls[c].pc = "forward"
    /\ \/ /\ Len(calls[c].buf) < BufferSize
          /\ calls' = [calls EXCEPT ![c].buf = Append(@, calls[c].held[1]),
                                    ![c].held = <<>>,
                                    ![c].pc = "range"]
       \/ /\ calls[c].ctxDone
          /\ calls' = [calls EXCEPT ![c].held = <<>>, ![c].pc = "close"]
    /\ UNCHANGED callUnchanged

\* The caller cancels the context it passed while the producer is running
\* (a later cancellation reaches no goroutine of the cache).
Cancel(c) ==
    /\ ~crashed
    /\ calls[c].kind # "none"
    /\ calls[c].pc # "done"
    /\ ~calls[c].ctxDone
    /\ calls' = [calls EXCEPT ![c].ctxDone = TRUE]
    /\ UNCHANGED callUnchanged

\* The caller receives the next value of the channel.
Recv(c) ==
    /\ ~crashed
    /\ calls[c].kind # "none"
    /\ calls[c].buf # <<>>
    /\ calls' = [calls EXCEPT ![c].recv = Append(@, Head(calls[c].buf)),
                              ![c].buf = Tail(@)]
    /\ UNCHANGED callUnchanged

-----------------------------------------------------------------------------
(* Specifications *)

Producer(c) ==
    \/ GetLookup(c) \/ GetCheck(c) \/ GetHit(c) \/ GetMiss(c) \/ GetSend(c)
    \/ ListSnapshot(c) \/ ListSend(c)
    \/ QueryInnerSnapshot(c) \/ QueryInnerSend(c) \/ QueryInnerClose(c)
    \/ QueryRange(c) \/ QueryForward(c)
    \/ ProducerClose(c)

\* What a running cache does: events, time, cleanup and calls.
Next ==
    \/ Tick
    \/ \E e \in Events : Publish(e)
    \/ EventRoutineHandle
    \/ CleanupRoutineTick
    \/ \E c \in CallIds, id \in Ids : StartGet(c, id)
    \/ \E c \in CallIds, fs \in FilterSets : StartList(c, fs)
    \/ \E c \in CallIds, q \in Queries : StartQuery(c, q)
    \/ \E c \in CallIds : GetLookup(c)
    \/ \E c \in CallIds : GetCheck(c)
    \/ \E c \in CallIds : GetHit(c)
    \/ \E c \in CallIds : GetMiss(c)
    \/ \E c \in CallIds : GetSend(c)
    \/ \E c \in CallIds : ListSnapshot(c)
    \/ \E c \in CallIds : ListSend(c)
    \/ \E c \in CallIds : QueryInnerSnapshot(c)
    \/ \E c \in CallIds : QueryInnerSend(c)
    \/ \E c \in CallIds : QueryInnerClose(c)
    \/ \E c \in CallIds : QueryRange(c)
    \/ \E c \in CallIds : QueryForward(c)
    \/ \E c \in CallIds : ProducerClose(c)
    \/ \E c \in CallIds : Cancel(c)
    \/ \E c \in CallIds : Recv(c)

Spec == Init /\ [][Next]_vars

\* The Go scheduler runs every goroutine that can take a step.
Fairness ==
    /\ \A c \in CallIds : WF_vars(Producer(c))
    /\ WF_vars(EventRoutineHandle)
    /\ WF_vars(CleanupRoutineTick)

\* The calls of the fair specification: whether a producer terminates does
\* not depend on the id or the filters it was given, so one Get, one List and
\* one Query are started against the same events, clock and cleanup.
FairIds == {"a"}
FairFilterSets == {<<>>}
FairQueries == {[Filters |-> <<>>, Limit |-> 0, Offset |-> 0]}

FairNext ==
    \/ Tick
    \/ \E e \in Events : Publish(e)
    \/ EventRoutineHandle
    \/ CleanupRoutineTick
    \/ \E c \in CallIds, id \in FairIds : StartGet(c, id)
    \/ \E c \in CallIds, fs \in FairFilterSets : StartList(c, fs)
    \/ \E c \in CallIds, q \in FairQueries : StartQuery(c, q)
    \/ \E c \in CallIds : GetLookup(c)
    \/ \E c \in CallIds : GetCheck(c)
    \/ \E c \in CallIds : GetHit(c)
    \/ \E c \in CallIds : GetMiss(c)
    \/ \E c \in CallIds : GetSend(c)
    \/ \E c \in CallIds : ListSnapshot(c)
    \/ \E c \in CallIds : ListSend(c)
    \/ \E c \in CallIds : QueryInnerSnapshot(c)
    \/ \E c \in CallIds : QueryInnerSend(c)
    \/ \E c \in CallIds : QueryInnerClose(c)
    \/ \E c \in CallIds : QueryRange(c)
    \/ \E c \in CallIds : QueryForward(c)
    \/ \E c \in CallIds : ProducerClose(c)
    \/ \E c \in CallIds : Cancel(c)
    \/ \E c \in CallIds : Recv(c)

FairSpec == Init /\ [][FairNext]_vars /\ Fairness

-----------------------------------------------------------------------------
(* A cache of TestData: the filter operators and the Query parameters *)

\* The entity of the cache tests: a string ID, a string Name, an int Age.
TestData(id, name, age) == [ID |-> id, Name |-> name, Age |-> age]

TestDataEvents == { Event(CreatedEvent, TestData("a", "al", 1)),
                    Event(CreatedEvent, TestData("b", "bo", 2)),
                    Event(UpdatedEvent, TestData("a", "al", 3)) }

\* One filter list per operator of FilterOperator, and contains on the int field.
TestDataFilterSets ==
    { <<Filter("Name", FilterEquals, "al")>>,
      <<Filter("Age", FilterGreater, 1)>>,
      <<Filter("Age", FilterLess, 2)>>,
      <<Filter("Age", FilterIn, {2})>>,
      <<Filter("Age", FilterNotIn, {2})>>,
      <<Filter("Name", FilterContains, "o")>>,
      <<Filter("Age", FilterContains, 1)>> }

TestDataQueries == { Query(<<>>, 0, 0), Query(<<>>, 1, 0), Query(<<>>, 0, 1) }

TestDataNext ==
    \/ Tick
    \/ \E e \in TestDataEvents : Publish(e)
    \/ EventRoutineHandle
    \/ CleanupRoutineTick
    \/ \E c \in CallIds, fs \in TestDataFilterSets : StartList(c, fs)
    \/ \E c \in CallIds, q \in TestDataQueries : StartQuery(c, q)
    \/ \E c \in CallIds : ListSnapshot(c)
    \/ \E c \in CallIds : ListSend(c)
    \/ \E c \in CallIds : QueryInnerSnapshot(c)
    \/ \E c \in CallIds : QueryInnerSend(c)
    \/ \E c \in CallIds : QueryInnerClose(c)
    \/ \E c \in CallIds : QueryRange(c)
    \/ \E c \in CallIds : QueryForward(c)
    \/ \E c \in CallIds : ProducerClose(c)
    \/ \E c \in CallIds : Cancel(c)
    \/ \E c \in CallIds : Recv(c)

TestDataSpec == Init /\ [][TestDataNext]_vars

-----------------------------------------------------------------------------
(* A cache of message.Message and its facades *)

\* message.Message, as far as the filters read it.
Message(id, sessionID, role) == [ID |-> id, SessionID |-> sessionID, Role |-> role]

SessionIDs == {"S1", "S2"}
MessageRoles == {"assistant", "user"}

MessageEvents == { Event(CreatedEvent, Message("a", "S1", "user")),
                   Event(CreatedEvent, Message("b", "S2", "user")),
                   Event(CreatedEvent, Message("b", "S1", "assistant")) }

\* The filters of the streaming services are written Filter{Field, Op: FilterOpEquals,
\* Value}: neither Op nor FilterOpEquals is declared, so the operator such a
\* filter ends up with is either FilterEquals or the zero FilterOperator.
NoOperator == ""
FacadeOperators == {FilterEquals, NoOperator}

\* streamingMessageService.StreamList: List with one filter on "session_id".
StreamList(c, op, sessionID) ==
    StartList(c, <<Filter("session_id", op, sessionID)>>)

\* streamingMessageService.StreamListByRole: filters on "session_id" and "role".
StreamListByRole(c, op, sessionID, role) ==
    StartList(c, <<Filter("session_id", op, sessionID), Filter("role", op, role)>>)

\* MessageCache.ListMessagesBySession: List with one filter on "SessionID".
ListMessagesBySession(c, sessionID) ==
    StartList(c, <<Filter("SessionID", FilterEquals, sessionID)>>)

\* MessageCache.ListMessagesBySessionAndRole: filters on "SessionID" and "Role".
ListMessagesBySessionAndRole(c, sessionID, role) ==
    StartList(c, <<Filter("SessionID", FilterEquals, sessionID),
                   Filter("Role", FilterEquals, role)>>)

MessageNext ==
    \/ Tick
    \/ \E e \in MessageEvents : Publish(e)
    \/ EventRoutineHandle
    \/ CleanupRoutineTick
    \/ \E c \in CallIds, op \in FacadeOperators, sid \in SessionIDs : StreamList(c, op, sid)
    \/ \E c \in CallIds, op \in FacadeOperators, sid \in SessionIDs, r \in MessageRoles :
          StreamListByRole(c, op, sid, r)
    \/ \E c \in CallIds, sid \in SessionIDs : ListMessagesBySession(c, sid)
    \/ \E c \in CallIds, sid \in SessionIDs, r \in MessageRoles :
          ListMessagesBySessionAndRole(c, sid, r)
    \/ \E c \in CallIds : ListSnapshot(c)
    \/ \E c \in CallIds : ListSend(c)
    \/ \E c \in CallIds : ProducerClose(c)
    \/ \E c \in CallIds : Cancel(c)
    \/ \E c \in CallIds : Recv(c)

MessageSpec == Init /\ [][MessageNext]_vars

-----------------------------------------------------------------------------
(* A cache of session.Session and its facades *)

\* session.Session, as far as the filters read it.
Session(id, parentSessionID) == [ID |-> id, ParentSessionID |-> parentSessionID]

ParentIDs == {"", "a"}

SessionEvents == { Event(CreatedEvent, Session("a", "")),
                   Event(CreatedEvent, Session("b", "a")),
                   Event(UpdatedEvent, Session("b", "")) }

\* streamingSessionService.StreamListByParent: List with one filter on "parent_id".
StreamListByParent(c, op, parentID) ==
    StartList(c, <<Filter("parent_id", op, parentID)>>)

\* SessionCache.ListSessionsByParent: List with one filter on "ParentSessionID".
ListSessionsByParent(c, parentID) ==
    StartList(c, <<Filter("ParentSessionID", FilterEquals, parentID)>>)

SessionNext ==
    \/ Tick
    \/ \E e \in SessionEvents : Publish(e)
    \/ EventRoutineHandle
    \/ CleanupRoutineTick
    \/ \E c \in CallIds, op \in FacadeOperators, pid \in ParentIDs :
          StreamListByParent(c, op, pid)
    \/ \E c \in CallIds, pid \in ParentIDs : ListSessionsByParent(c, pid)
    \/ \E c \in CallIds : ListSnapshot(c)
    \/ \E c \in CallIds : ListSend(c)
    \/ \E c \in CallIds : ProducerClose(c)
    \/ \E c \in CallIds : Cancel(c)
    \/ \E c \in CallIds : Recv(c)

SessionSpec == Init /\ [][SessionNext]_vars

-----------------------------------------------------------------------------
(* The lifetime of a cache: the source closes, Close is called *)

\* Whether a routine or a producer terminates does not depend on what the
\* events carry: the source sends one record, and the calls are those of the
\* fair specification.
LifeEvents == { Event(CreatedEvent, Entity("a", "user")) }

LifeNext ==
    \/ Tick
    \/ \E e \in LifeEvents : Publish(e)
    \/ CloseSource
    \/ EventRoutineHandle
    \/ EventRoutineExit
    \/ CleanupRoutineTick
    \/ CleanupRoutineExit
    \/ Close
    \/ \E c \in CallIds, id \in FairIds : StartGet(c, id)
    \/ \E c \in CallIds, fs \in FairFilterSets : StartList(c, fs)
    \/ \E c \in CallIds, q \in FairQueries : StartQuery(c, q)
    \/ \E c \in CallIds : GetLookup(c)
    \/ \E c \in CallIds : GetCheck(c)
    \/ \E c \in CallIds : GetHit(c)
    \/ \E c \in CallIds : GetMiss(c)
    \/ \E c \in CallIds : GetSend(c)
    \/ \E c \in CallIds : ListSnapshot(c)
    \/ \E c \in CallIds : ListSend(c)
    \/ \E c \in CallIds : QueryInnerSnapshot(c)
    \/ \E c \in CallIds : QueryInnerSend(c)
    \/ \E c \in CallIds : QueryInnerClose(c)
    \/ \E c \in CallIds : QueryRange(c)
    \/ \E c \in CallIds : QueryForward(c)
    \/ \E c \in CallIds : ProducerClose(c)
    \/ \E c \in CallIds : Cancel(c)
    \/ \E c \in CallIds : Recv(c)

\* A select whose closed-channel case stays ready is eventually taken there.
LifeFairness ==
    /\ Fairness
    /\ WF_vars(EventRoutineExit)
    /\ WF_vars(CleanupRoutineExit)

LifeSpec == Init /\ [][LifeNext]_vars /\ LifeFairness

-----------------------------------------------------------------------------
(* A cache that is never closed: events, time, cleanup, Invalidate, Clear *)

AdminNext ==
    \/ Tick
    \/ \E e \in Events : Publish(e)
    \/ CloseSource
    \/ EventRoutineHandle
    \/ EventRoutineExit
    \/ CleanupRoutineTick
    \/ \E ids \in IdLists : Invalidate(ids)
    \/ Clear

\* Both routines run for as long as the cache is open.
AdminFairness ==
    /\ WF_vars(EventRoutineHandle)
    /\ WF_vars(EventRoutineExit)
    /\ WF_vars(CleanupRoutineTick)

AdminSpec == Init /\ [][AdminNext]_vars /\ AdminFairness

-----------------------------------------------------------------------------
(* A cache whose event source closes: what the source had sent is ingested,
   the event routine returns, and Get and List go on reading the index while
   cleanup, Invalidate and Clear remove from it *)

SourceNext ==
    \/ Tick
    \/ \E e \in LifeEvents : Publish(e)
    \/ CloseSource
    \/ EventRoutineHandle
    \/ EventRoutineExit
    \/ CleanupRoutineTick
    \/ \E ids \in IdLists : Invalidate(ids)
    \/ Clear
    \/ \E c \in CallIds, id \in FairIds : StartGet(c, id)
    \/ \E c \in CallIds, fs \in FairFilterSets : StartList(c, fs)
    \/ \E c \in CallIds : GetLookup(c)
    \/ \E c \in CallIds : GetCheck(c)
    \/ \E c \in CallIds : GetHit(c)
    \/ \E c \in CallIds : GetMiss(c)
    \/ \E c \in CallIds : GetSend(c)
    \/ \E c \in CallIds : ListSnapshot(c)
    \/ \E c \in CallIds : ListSend(c)
    \/ \E c \in CallIds : ProducerClose(c)

SourceSpec == Init /\ [][SourceNext]_vars /\ AdminFairness

-----------------------------------------------------------------------------
(* The Manager: Start builds the session cache and the message cache, Stop
   closes them.  Both run under m.mu.Lock from beginning to end, so each is
   one atomic action.  The two caches are built and closed in the same
   critical sections; the variables of the cache hold the message cache, and
   of the session cache the model keeps the calls of Close made on it. *)

\* NewManager: no cache has been built, no routine runs.
ManagerInit ==
    /\ mgr \in { [NoManager EXCEPT !.messageService = b] : b \in BOOLEAN }
    /\ cc = NoContextCache
    /\ now = 0
    /\ items = [k \in Keys |-> NoItem]
    /\ stats = [HitCount |-> 0, MissCount |-> 0, ItemCount |-> 0, LastCleanup |-> 0]
    /\ eventSub = <<>>
    /\ srcClosed = FALSE
    /\ done = FALSE
    /\ eventDone = FALSE
    /\ crashed = FALSE
    /\ evPc = "none"
    /\ clPc = "none"
    /\ tick = FALSE
    /\ tickerOn = FALSE
    /\ calls = [c \in CallIds |-> NoCall]
    /\ published = 0
    /\ ingested = 0
    /\ invalidated = 0
    /\ lastOp = [k \in Keys |-> NoOp]

\* NewSessionCacheManager / NewMessageCacheManager and their Start: a new
\* pair of caches; NewStreamCache subscribes anew and starts both routines.
NewCaches ==
    /\ items' = [k \in Keys |-> NoItem]
    /\ stats' = [HitCount |-> 0, MissCount |-> 0, ItemCount |-> 0, LastCleanup |-> 0]
    /\ eventSub' = <<>>
    /\ srcClosed' = FALSE
    /\ done' = FALSE
    /\ eventDone' = FALSE
    /\ evPc' = "run"
    /\ clPc' = "run"
    /\ tick' = FALSE
    /\ tickerOn' = TRUE
    /\ lastOp' = [k \in Keys |-> NoOp]
    /\ UNCHANGED <<now, crashed, calls, countVars>>

\* A Start that does not test m.started.
ManagerStartAlways ==
    /\ ~crashed
    /\ mgr.starts < MaxManagerCalls
    /\ UNCHANGED cc
    /\ mgr' = [mgr EXCEPT !.starts = @ + 1, !.started = TRUE, !.gen = @ + 1]
    /\ NewCaches

\* A Start that builds caches only the first time.
ManagerStartReuse ==
    /\ ~crashed
    /\ mgr.starts < MaxManagerCalls
    /\ UNCHANGED cc
    /\ IF mgr.started \/ mgr.gen > 0
       THEN /\ mgr' = [mgr EXCEPT !.starts = @ + 1, !.started = TRUE]
            /\ UNCHANGED cacheVars
       ELSE /\ mgr' = [mgr EXCEPT !.starts = @ + 1, !.started = TRUE, !.gen = @ + 1]
            /\ NewCaches

\* Manager.Start. sessionManager.Start builds the session cache, then
\* messageManager.Start calls NewMessageCache, which evaluates the method value
\* messageService.Subscribe: on a nil interface this panics, before m.started
\* is set.
ManagerStart ==
    /\ ~crashed
    /\ mgr.starts < MaxManagerCalls
    /\ UNCHANGED cc
    /\ IF mgr.started
       THEN /\ mgr' = [mgr EXCEPT !.starts = @ + 1]
            /\ UNCHANGED cacheVars
       ELSE IF ~mgr.messageService
       THEN /\ mgr' = [mgr EXCEPT !.starts = @ + 1]
            /\ crashed' = TRUE
            /\ UNCHANGED <<now, items, stats, eventSub, tick, calls, lastOp, countVars,
                           srcClosed, done, eventDone, evPc, clPc, tickerOn>>
       ELSE /\ mgr' = [mgr EXCEPT !.starts = @ + 1, !.started = TRUE, !.gen = @ + 1]
            /\ NewCaches

\* SessionCacheManager.Stop and MessageCacheManager.Stop: Close is called on
\* the cache of each.
StopCaches(m) ==
    [m EXCEPT !.closes = [k \in CacheKinds |-> [@[k] EXCEPT ![m.gen] = @ + 1]],
              !.closedAt = published]

\* A Stop that does not test m.started.
ManagerStopAlways ==
    /\ ~crashed
    /\ mgr.stops < MaxManagerCalls
    /\ UNCHANGED cc
    /\ IF mgr.gen = 0
       THEN /\ mgr' = [mgr EXCEPT !.stops = @ + 1]
            /\ UNCHANGED cacheVars
       ELSE /\ mgr' = [StopCaches(mgr) EXCEPT !.stops = @ + 1, !.started = FALSE]
            /\ CloseCache

\* Manager.Stop
ManagerStop ==
    /\ ~crashed
    /\ mgr.stops < MaxManagerCalls
    /\ UNCHANGED cc
    /\ IF ~mgr.started
       THEN /\ mgr' = [mgr EXCEPT !.stops = @ + 1]
            /\ UNCHANGED cacheVars
       ELSE /\ mgr' = [StopCaches(mgr) EXCEPT !.stops = @ + 1, !.started = FALSE]
            /\ CloseCache

\* The service publishes to the subscription of the cache the Manager built.
ManagerPublish(e) == mgr.gen > 0 /\ Publish(e)

ManagerNext ==
    \/ ManagerStart
    \/ ManagerStop
    \/ Tick
    \/ \E e \in Events : ManagerPublish(e)
    \/ EventRoutineHandle
    \/ EventRoutineExit
    \/ CleanupRoutineTick
    \/ CleanupRoutineExit

ManagerSpec == ManagerInit /\ [][ManagerNext]_vars

-----------------------------------------------------------------------------
(* The ContextCache of internal/llm/context *)

\* contains(s, substr), for strings of at most one character.
contains(str, substr) == substr = "" \/ str = substr

\* The map after delete(cc.cache, key) for every key of ks.
WithoutKeys(cache, ks) == [k \in ContextKeys |-> IF k \in ks THEN NoEntry ELSE cache[k]]

\* cc.mu.Lock() returns: no goroutine holds the read lock.  (The operations
\* that take the write lock hold it for their whole body.)
CanLock == ~cc.fatal /\ cc.readers = {}

\* Get: cc.mu.RLock()
ContextGet(t, key) ==
    /\ ~cc.fatal
    /\ cc.th[t].pc = "idle"
    /\ cc' = [cc EXCEPT !.readers = @ \cup {t},
                        !.th[t] = [pc |-> "lookup", key |-> key, ret |-> "none"]]
    /\ UNCHANGED <<cacheVars, mgr>>

\* Get: entry, exists := cc.cache[key], and the test of entry.ExpiresAt.
ContextGetLookup(t) ==
    /\ ~cc.fatal
    /\ cc.th[t].pc = "lookup"
    /\ LET entry == cc.cache[cc.th[t].key] IN
       cc' = IF ~entry.present
             THEN [cc EXCEPT !.th[t].pc = "unlock", !.th[t].ret = "nil"]
             ELSE IF now > entry.ExpiresAt
             THEN [cc EXCEPT !.th[t].pc = "delete"]
             ELSE [cc EXCEPT !.th[t].pc = "unlock", !.th[t].ret = "copy"]
    /\ UNCHANGED <<cacheVars, mgr>>

\* Get: delete(cc.cache, key), with the read lock held.  When another
\* goroutine holds the read lock too, the map is accessed by both without
\* synchronisation: the delete takes effect, or the runtime detects the
\* concurrent map access and stops the process.
ContextGetDelete(t) ==
    /\ ~cc.fatal
    /\ cc.th[t].pc = "delete"
    /\ \/ cc' = [cc EXCEPT !.cache = WithoutKeys(@, {cc.th[t].key}),
                           !.th[t].pc = "unlock", !.th[t].ret = "nil"]
       \/ /\ cc.readers \ {t} # {}
          /\ cc' = [cc EXCEPT !.fatal = TRUE]
    /\ UNCHANGED <<cacheVars, mgr>>

\* Get: the deferred cc.mu.RUnlock()
ContextGetRUnlock(t) ==
    /\ ~cc.fatal
    /\ cc.th[t].pc = "unlock"
    /\ cc' = [cc EXCEPT !.readers = @ \ {t},
                        !.th[t].pc = "idle", !.th[t].key = ""]
    /\ UNCHANGED <<cacheVars, mgr>>

\* Set
ContextSet(key, filePath) ==
    /\ CanLock
    /\ cc' = [cc EXCEPT !.cache[key] = [present |-> TRUE, FilePath |-> filePath,
                                        ExpiresAt |-> now + ContextTTL]]
    /\ UNCHANGED <<cacheVars, mgr>>

\* Delete
ContextDelete(key) ==
    /\ CanLock
    /\ cc' = [cc EXCEPT !.cache = WithoutKeys(@, {key})]
    /\ UNCHANGED <<cacheVars, mgr>>

\* Clear
ContextClear ==
    /\ CanLock
    /\ cc' = [cc EXCEPT !.cache = [k \in ContextKeys |-> NoEntry]]
    /\ UNCHANGED <<cacheVars, mgr>>

\* Cleanup
ContextCleanup ==
    /\ CanLock
    /\ cc' = [cc EXCEPT !.cache = WithoutKeys(@, { k \in ContextKeys :
                                        @[k].present /\ now > @[k].ExpiresAt })]
    /\ UNCHANGED <<cacheVars, mgr>>

\* InvalidateByFilePath
ContextInvalidateByFilePath(filePath) ==
    /\ CanLock
    /\ cc' = [cc EXCEPT !.cache = WithoutKeys(@, { k \in ContextKeys :
                                        @[k].present /\ @[k].FilePath = filePath })]
    /\ UNCHANGED <<cacheVars, mgr>>

\* InvalidateByPattern
ContextInvalidateByPattern(pattern) ==
    /\ CanLock
    /\ cc' = [cc EXCEPT !.cache = WithoutKeys(@, { k \in ContextKeys :
                                        @[k].present /\ contains(k, pattern) })]
    /\ UNCHANGED <<cacheVars, mgr>>

ContextNext ==
    \/ Tick
    \/ \E t \in Threads, key \in ContextKeys : ContextGet(t, key)
    \/ \E t \in Threads : ContextGetLookup(t)
    \/ \E t \in Threads : ContextGetDelete(t)
    \/ \E t \in Threads : ContextGetRUnlock(t)
    \/ \E key \in ContextKeys, filePath \in FilePaths : ContextSet(key, filePath)
    \/ \E key \in ContextKeys : ContextDelete(key)
    \/ ContextClear
    \/ ContextCleanup
    \/ \E filePath \in FilePaths : ContextInvalidateByFilePath(filePath)
    \/ \E pattern \in Patterns : ContextInvalidateByPattern(pattern)

ContextSpec == Init /\ [][ContextNext]_vars

-----------------------------------------------------------------------------
(* Properties *)

IsGet(c) == calls[c].kind = "get"
IsList(c) == calls[c].kind = "list"
IsSubscriber(c) == calls[c].kind \in {"list", "query"}

\* The producer goroutines of the call have all returned.
ProducerDone(c) == calls[c].pc = "done" /\ calls[c].innerPc \in {"none", "done"}

\* The step ingests an event.
Ingests == ingested' = ingested + 1

\* The order of the strings of the model (Go compares strings bytewise).
StrRank(str) ==
    CASE str = "" -> 0
      [] str = "a" -> 1
      [] str = "assistant" -> 2
      [] str = "b" -> 3
      [] str = "user" -> 4
      [] OTHER -> 5

\* The fields that hold a number; the other fields of the model hold strings.
IsNumberField(field) == field = "Age"

\* The order of two values of the field.
Greater(field, v, w) == IF IsNumberField(field) THEN v > w ELSE StrRank(v) > StrRank(w)

\* The pairs <<sub, str>> of strings of the model with sub a substring of str.
SubstringPairs == { <<"o", "bo">>, <<"al", "al">>, <<"bo", "bo">>, <<"a", "al">>,
                    <<"l", "al">>, <<"b", "bo">> }

\* The operator has no meaning for the type of the field: contains on a number.
NotMeaningful(filter) == filter.Operator = FilterContains /\ IsNumberField(filter.Field)

\* What each operator asks of a field value.
Satisfies(value, filter) ==
    CASE filter.Operator = FilterEquals -> value = filter.Value
      [] filter.Operator = FilterNotEquals -> value # filter.Value
      [] filter.Operator = FilterGreater -> Greater(filter.Field, value, filter.Value)
      [] filter.Operator = FilterLess -> Greater(filter.Field, filter.Value, value)
      [] filter.Operator = FilterIn -> value \in filter.Value
      [] filter.Operator = FilterNotIn -> value \notin filter.Value
      [] filter.Operator = FilterContains ->
            ~NotMeaningful(filter) /\ <<filter.Value, value>> \in SubstringPairs
      [] OTHER -> FALSE

\* The unexpired records that satisfy every filter that names one of their fields.
SatisfyingRecords(its, t, filters) ==
    { its[k].data : k \in { k \in Keys :
        /\ its[k].present
        /\ t - its[k].timestamp <= TTL
        /\ \A i \in 1..Len(filters) :
              HasField(its[k].data, filters[i].Field) =>
                  Satisfies(FieldValue(its[k].data, filters[i].Field), filters[i]) } }

\* The step sends a value on the channel of call c; Sent is that value.
Sends(c) == EmittedCount(calls', c) > EmittedCount(calls, c)
Sent(c) == calls'[c].buf[Len(calls'[c].buf)]

(* C1: once every event sent has been ingested, and while the record of the
   last event for id has not outlived its TTL, the value Get(id) emits is the
   payload of the last Created/Updated event for id, with cached = true and
   no error; it is ErrCacheMiss when the last event for id was Deleted or
   there was none.  (quiet: every event sent had been ingested when the call
   started and nothing but the call has touched the cache since; id ranges
   over the ids handleEvent can read from a payload.) *)
C1_GetReturnsLastEvent ==
    [][\A c \in CallIds :
          (/\ IsGet(c)
           /\ calls[c].id \in Keys
           /\ calls[c].quiet
           /\ Sends(c)
           /\ now - lastOp[calls[c].id].at <= TTL)
          => LET op == lastOp[calls[c].id] IN
             IF op.op = "upsert"
             THEN Sent(c).data = op.data /\ Sent(c).cached /\ Sent(c).err = ErrNil
             ELSE Sent(c).err = ErrCacheMiss /\ ~Sent(c).cached /\ Sent(c).data = ZeroT]_vars

\* A Get made after Created then Updated for "a" were ingested has emitted
\* the updated payload.
C1_Witness ==
    \E c \in CallIds :
        /\ IsGet(c) /\ calls[c].id = "a" /\ calls[c].quiet
        /\ Emitted(c) # <<>>
        /\ Emitted(c)[1].seen = 2
        /\ lastOp["a"].op = "upsert" /\ lastOp["a"].n = 2
        /\ Emitted(c)[1].data = Entity("a", "assistant")

(* C2: when an ingested event changes the filtered set of a list subscriber
   that has received its initial snapshot and has not cancelled, the new
   snapshot can reach it: the subscriber's channel is still open. *)
C2_ChangeReachesSubscriber ==
    [][\A c \in CallIds :
          (/\ IsList(c)
           /\ calls[c].recv # <<>>
           /\ ~calls[c].ctxDone
           /\ Ingests
           /\ ListResults(items, now, calls[c].filters)
                 # ListResults(items', now', calls[c].filters))
          => ~calls'[c].closed]_vars

(* C3: the snapshot List takes holds exactly the unexpired records that
   satisfy every filter, and the first value List emits is that snapshot
   with cached = true and no error. *)
C3_InitialSnapshot ==
    [][\A c \in CallIds :
          IsList(c) =>
            /\ (calls[c].pc = "snapshot" /\ calls'[c].pc = "send")
                  => calls'[c].results = SatisfyingRecords(items, now, calls[c].filters)
            /\ (Sends(c) /\ Emitted(c) = <<>>)
                  => /\ Sent(c).data = calls[c].results
                     /\ Sent(c).cached
                     /\ Sent(c).err = ErrNil]_vars

(* C4: the channel Get returns carries at most one value, is closed once the
   goroutine has sent it, and, when the context was not cancelled, has
   carried exactly one value by the time it is closed; every Get channel is
   eventually closed. *)
C4_GetEmitsOnceThenCloses ==
    /\ [](\A c \in CallIds :
            IsGet(c) =>
                /\ Len(Emitted(c)) <= 1
                /\ (calls[c].closed /\ ~calls[c].ctxDone) => Len(Emitted(c)) = 1)
    /\ \A c \in CallIds : [](IsGet(c) => <>calls[c].closed)

\* A Get channel closed after its one value, with an event ingested after the lookup.
C4_Witness ==
    \E c \in CallIds :
        /\ IsGet(c) /\ calls[c].closed /\ ~calls[c].ctxDone
        /\ Len(calls[c].recv) = 1
        /\ ingested > calls[c].recv[1].seen

(* C5: when an Updated event for the id of a Get is ingested after the caller
   received the current value, the update can reach the caller: the channel
   of the Get is still open. *)
C5_GetDeliversUpdates ==
    [][\A c \in CallIds :
          (/\ IsGet(c)
           /\ calls[c].recv # <<>>
           /\ calls[c].recv[1].cached
           /\ ~calls[c].ctxDone
           /\ Ingests
           /\ Head(eventSub).Type = UpdatedEvent
           /\ extractID(Head(eventSub).Payload) = calls[c].id)
          => ~calls'[c].closed]_vars

(* C6: the channel of a List or Query whose context is not cancelled, on a
   cache that is not closed, is open. *)
C6_SubscriberChannelStaysOpen ==
    \A c \in CallIds :
        (IsSubscriber(c) /\ ~calls[c].ctxDone /\ ~done) => ~calls[c].closed

(* C7: once the context of a Get, List or Query is cancelled, its channel is
   eventually closed and its producer goroutines have returned, whether or
   not the caller reads. *)
C7_CancelClosesChannel ==
    \A c \in CallIds :
        [](calls[c].ctxDone => <>(calls[c].closed /\ ProducerDone(c)))

\* A cancelled call whose channel is closed and was never read.
C7_Witness ==
    \E c \in CallIds :
        /\ calls[c].ctxDone /\ calls[c].closed /\ ProducerDone(c)
        /\ calls[c].recv = <<>>
        /\ calls[c].buf = <<>>

(* C8: no value is sent on the channel of a call whose context is cancelled. *)
C8_NoSendAfterCancel ==
    [][\A c \in CallIds :
          calls[c].ctxDone => EmittedCount(calls', c) = EmittedCount(calls, c)]_vars

(* C9: two values that follow each other on the channel of a List or Query
   never hold the same records. *)
C9_NoEqualConsecutiveSnapshots ==
    \A c \in CallIds :
        IsSubscriber(c) =>
            \A i \in 1..(Len(Emitted(c)) - 1) : Emitted(c)[i].data # Emitted(c)[i + 1].data

\* A subscriber that got its snapshot before an Updated event repeated the
\* cached payload, and whose producer has returned: no second snapshot.
C9_Witness ==
    \E c \in CallIds :
        /\ IsSubscriber(c) /\ ProducerDone(c)
        /\ Len(calls[c].recv) = 1
        /\ \E k \in Keys : lastOp[k].repeat /\ lastOp[k].n > calls[c].recv[1].seen

(* C10: the first value a list subscriber receives reflects every event
   ingested before the read: each record a Created/Updated event put in the
   index, that is still cached, unexpired and matching the filters when the
   subscriber reads, is in that first value. *)
C10_FirstReceivedIsLatest ==
    [][\A c \in CallIds :
          (IsList(c) /\ calls[c].recv = <<>> /\ calls'[c].recv # <<>>)
          => \A k \in Keys :
                (/\ lastOp[k].op = "upsert"
                 /\ items[k].present
                 /\ items[k].data = lastOp[k].data
                 /\ items[k].data \in ListResults(items, now, calls[c].filters))
                => lastOp[k].data \in calls'[c].recv[1].data]_vars

\* The step removes the record of key k from the index.
Removes(k) == items[k].present /\ ~items'[k].present

(* C11: when a record of the last snapshot a list/query subscriber received
   is removed from the index by something other than an event (TTL cleanup,
   Invalidate, Clear), and the subscriber has not cancelled, a new snapshot
   can reach it: its channel is still open. *)
C11_RemovalReachesSubscriber ==
    [][\A c \in CallIds :
          (/\ IsSubscriber(c)
           /\ calls[c].recv # <<>>
           /\ ~calls[c].ctxDone
           /\ ~Ingests
           /\ \E k \in Keys :
                 /\ Removes(k)
                 /\ items[k].data \in calls[c].recv[Len(calls[c].recv)].data)
          => ~calls'[c].closed]_vars

\* The record with this data is in the index and has outlived its TTL.
ExpiredRecord(d) == \E k \in Keys : items[k].present /\ items[k].data = d /\ now - items[k].timestamp > TTL

(* C12 (as stated): no value is emitted that holds a record already expired
   at the moment of the send: not a Get result with cached = true, not a
   record of a List/Query snapshot. *)
C12_NoExpiredAtEmission ==
    [][\A c \in CallIds :
          Sends(c) =>
            /\ (IsGet(c) /\ Sent(c).cached) => now - Sent(c).ts <= TTL
            /\ IsSubscriber(c) => \A d \in Sent(c).data : ~ExpiredRecord(d)]_vars

(* C12 (amended): no record is selected for serving that is expired at the
   moment the cache reads it, whether or not the cleanup has run: Get takes
   its hit branch only for an item within its TTL at the test, and the
   snapshot of List/Query holds no record that is expired when it is taken. *)
C12_NoExpiredAtRead ==
    [][\A c \in CallIds :
          /\ (IsGet(c) /\ calls[c].pc = "check" /\ calls'[c].pc = "hit")
                => now - calls[c].item.timestamp <= TTL
          /\ (IsList(c) /\ calls[c].pc = "snapshot" /\ calls'[c].pc = "send")
                => \A d \in calls'[c].results : ~ExpiredRecord(d)
          /\ (calls[c].kind = "query" /\ calls[c].innerPc = "snapshot"
                                      /\ calls'[c].innerPc = "send")
                => \A d \in calls'[c].results : ~ExpiredRecord(d)]_vars

\* A Get answered ErrCacheMiss for a record that the cleanup, which has not
\* run yet, still keeps in the index past its TTL.
C12_Witness ==
    \E c \in CallIds :
        /\ IsGet(c) /\ calls[c].id \in Keys
        /\ Emitted(c) # <<>>
        /\ Emitted(c)[1].err = ErrCacheMiss
        /\ items[calls[c].id].present
        /\ lastOp[calls[c].id].n <= Emitted(c)[1].seen
        /\ stats.LastCleanup = 0

\* The keys that have an entry in c.items.
CachedKeys == { k \in Keys : items[k].present }

(* C13: the number of cached records never exceeds config.MaxItems (an
   insert into a full index is preceded by the eviction of one record). *)
C13_ItemCountWithinMaxItems ==
    /\ Cardinality(CachedKeys) <= MaxItems
    /\ stats.ItemCount <= MaxItems

\* The Get calls that emitted a value with cached = true / with ErrCacheMiss.
HitCalls == { c \in CallIds : IsGet(c) /\ Emitted(c) # <<>> /\ Emitted(c)[1].cached }
MissCalls == { c \in CallIds : IsGet(c) /\ Emitted(c) # <<>> /\ Emitted(c)[1].err = ErrCacheMiss }

(* C14: once the goroutine of every Get has returned, HitCount is the number
   of Get calls that emitted a value with cached = true and MissCount the
   number that emitted ErrCacheMiss; a Get whose value was never emitted is
   counted in neither. *)
C14_StatsCountEmittedGets ==
    (\A c \in CallIds : IsGet(c) => ProducerDone(c))
        => /\ stats.HitCount = Cardinality(HitCalls)
           /\ stats.MissCount = Cardinality(MissCalls)

\* The step in which List, called directly or by Query, takes its snapshot.
TakesSnapshot(c) ==
    \/ calls[c].kind = "list" /\ calls[c].pc = "snapshot" /\ calls'[c].pc = "send"
    \/ calls[c].kind = "query" /\ calls[c].innerPc = "snapshot" /\ calls'[c].innerPc = "send"

(* C15: every record of a List/Query snapshot satisfies each filter whose
   operator is in, nin, gt, lt or contains (and has a meaning for the type of
   the field): membership, non-membership, strictly greater, strictly less,
   substring. *)
C15_ListedOperatorsHonoured ==
    [][\A c \in CallIds :
          TakesSnapshot(c) =>
            \A d \in calls'[c].results :
                \A i \in 1..Len(calls[c].filters) :
                    LET f == calls[c].filters[i] IN
                    (/\ f.Operator \in {FilterIn, FilterNotIn, FilterGreater, FilterLess,
                                        FilterContains}
                     /\ HasField(d, f.Field)
                     /\ ~NotMeaningful(f))
                    => Satisfies(FieldValue(d, f.Field), f)]_vars

(* C16: a filter whose operator has no meaning for the type of its field
   (contains on a number) is false for every record, so the snapshot holds no
   record, and the value emitted carries no error. *)
C16_MeaninglessOperatorIsFalse ==
    [][\A c \in CallIds :
          /\ (TakesSnapshot(c) /\ \E i \in 1..Len(calls[c].filters) :
                                      NotMeaningful(calls[c].filters[i]))
                => calls'[c].results = {}
          /\ (IsSubscriber(c) /\ Sends(c)) => Sent(c).err = ErrNil]_vars

\* The number of items left of n after dropping offset and keeping at most
\* limit of them, a limit of zero keeping all.
PageSize(n, offset, limit) ==
    LET rest == IF n > offset THEN n - offset ELSE 0
    IN IF limit = 0 \/ rest <= limit THEN rest ELSE limit

(* C17: the snapshot of Query(ctx, q) is the unexpired records matching
   q.Filters after dropping the first q.Offset and keeping at most q.Limit
   of them (zero: all); the value Query emits holds at most q.Limit records.
   (Snapshots are sets in the model: the order q.Sort asks for is not
   stated here.) *)
C17_QueryAppliesOffsetAndLimit ==
    [][\A c \in CallIds :
          calls[c].kind = "query" =>
            /\ TakesSnapshot(c)
                  => Cardinality(calls'[c].results)
                       = PageSize(Cardinality(SatisfyingRecords(items, now, calls[c].filters)),
                                  calls[c].query.Offset, calls[c].query.Limit)
            /\ (Sends(c) /\ calls[c].query.Limit > 0)
                  => Cardinality(Sent(c).data) <= calls[c].query.Limit]_vars

\* The call lists the messages of one session and one role: the filters of
\* StreamListByRole or of ListMessagesBySessionAndRole.
IsListByRole(c) ==
    /\ IsList(c) /\ Len(calls[c].filters) = 2
    /\ calls[c].filters[1].Field \in {"session_id", "SessionID"}
    /\ calls[c].filters[2].Field \in {"role", "Role"}

\* The call lists the messages of one session: the filter of StreamList or of
\* ListMessagesBySession.
IsListBySession(c) ==
    /\ IsList(c) /\ Len(calls[c].filters) = 1
    /\ calls[c].filters[1].Field \in {"session_id", "SessionID"}

\* The data of the cached records that have not outlived their TTL.
Unexpired == { items[k].data : k \in { k \in Keys : items[k].present
                                                      /\ now - items[k].timestamp <= TTL } }

(* C18: the snapshot a list-by-role call of the Message facade takes for
   (sessionID, role) is the snapshot the generic List takes in the same
   state with the two filters SessionID eq sessionID and Role eq role: the
   messages that match both. *)
C18_ListByRoleIsGenericList ==
    [][\A c \in CallIds :
          (IsListByRole(c) /\ TakesSnapshot(c))
          => LET sid == calls[c].filters[1].Value
                 role == calls[c].filters[2].Value
             IN /\ calls'[c].results
                     = ListResults(items, now, <<Filter("SessionID", FilterEquals, sid),
                                                 Filter("Role", FilterEquals, role)>>)
                /\ calls'[c].results
                     = { d \in Unexpired : d.SessionID = sid /\ d.Role = role }]_vars

(* C19: the snapshot a list-by-session call of the Message facade takes for
   sessionID holds exactly the cached, unexpired messages of that session. *)
C19_StreamListOnlyItsSession ==
    [][\A c \in CallIds :
          (IsListBySession(c) /\ TakesSnapshot(c))
          => calls'[c].results
               = { d \in Unexpired : d.SessionID = calls[c].filters[1].Value }]_vars

\* The call lists the sessions of one parent: the filter of StreamListByParent
\* or of ListSessionsByParent.
IsListByParent(c) ==
    /\ IsList(c) /\ Len(calls[c].filters) = 1
    /\ calls[c].filters[1].Field \in {"parent_id", "ParentSessionID"}

(* C20: the snapshot a list-by-parent call of the Session facade takes for
   parentID holds exactly the cached, unexpired sessions whose
   ParentSessionID is parentID. *)
C20_StreamListByParentOnlyItsChildren ==
    [][\A c \in CallIds :
          (IsListByParent(c) /\ TakesSnapshot(c))
          => calls'[c].results
               = { d \in Unexpired : d.ParentSessionID = calls[c].filters[1].Value }]_vars

(* C21: a call of Close on a cache that is already closed returns like the
   first one did: no call of Close ends the process with a panic. *)
C21_SecondCloseReturns == ~crashed

\* The tasks of the cache: the two routines and the producers of the calls made.
NoTaskLeft ==
    /\ evPc = "exit"
    /\ clPc = "exit"
    /\ \A c \in CallIds : calls[c].kind # "none" => ProducerDone(c)

(* C22: once Close has been called, the event routine, the cleanup routine and
   the producer goroutines of the calls made all eventually return (or the
   process is gone altogether: the panic of a second Close ends every
   goroutine with it). *)
C22_NoTaskSurvivesClose == done ~> (crashed \/ NoTaskLeft)

C22_Witness ==
    /\ done /\ ~crashed
    /\ \E c \in CallIds : calls[c].kind # "none"
    /\ NoTaskLeft

\* Every record of the index has outlived its TTL; the index holds no record.
AllElapsed == \A k \in Keys : items[k].present => now - items[k].timestamp > TTL
IndexEmpty == CachedKeys = {}

\* The step is a call of Manager.Start, of Manager.Stop.
StartCall == mgr'.starts = mgr.starts + 1
StopCall == mgr'.stops = mgr.stops + 1

(* C23: a call of Manager.Start on a started Manager returns and changes
   nothing: the caches are the ones it had, with their contents and their
   routines, and no cache is built. *)
C23_StartWhileRunningIsNoOp ==
    [][(StartCall /\ mgr.started) =>
          /\ mgr' = [mgr EXCEPT !.starts = @ + 1]
          /\ UNCHANGED cacheVars]_vars

\* Start was called twice and Stop never: the second call found the Manager
\* started, and the cache built by the first holds a record.
C23_Witness ==
    /\ mgr.starts = 2 /\ mgr.stops = 0
    /\ mgr.started /\ mgr.gen = 1
    /\ ~IndexEmpty

(* C24: a call of Manager.Stop on a Manager that is not started (never
   started, or stopped) returns and changes nothing, and whatever the calls
   of Start and Stop, Close is called at most once on each cache and never
   panics. *)
C24_StopIsIdempotent ==
    [][/\ (StopCall /\ ~mgr.started) =>
              /\ mgr' = [mgr EXCEPT !.stops = @ + 1]
              /\ UNCHANGED cacheVars
       /\ \A k \in CacheKinds, g \in 1..MaxManagerCalls : mgr'.closes[k][g] <= 1
       /\ StopCall => ~crashed']_vars

\* Stop was called twice on the caches of one Start: they were closed once.
C24_Witness ==
    /\ mgr.stops = 2 /\ mgr.gen = 1
    /\ ~mgr.started /\ done /\ ~crashed
    /\ \A k \in CacheKinds : mgr.closes[k][1] = 1

(* C25: a call of Manager.Start on a stopped Manager makes it started again
   and builds new caches, which are not the closed ones: no Close has been
   called on them, they are empty, and their routines run on a new
   subscription. *)
C25_StartAfterStopBuildsFreshCaches ==
    [][(StartCall /\ ~mgr.started /\ mgr.gen > 0) =>
          /\ mgr'.started
          /\ mgr'.gen = mgr.gen + 1
          /\ \A k \in CacheKinds : mgr'.closes[k][mgr'.gen] = 0
          /\ IndexEmpty'
          /\ stats'.ItemCount = 0
          /\ ~done' /\ ~eventDone' /\ tickerOn'
          /\ evPc' = "run" /\ clPc' = "run"
          /\ eventSub' = <<>>]_vars

\* The caches of the second Start are open and have ingested an event.
C25_Witness ==
    /\ mgr.started /\ mgr.gen = 2
    /\ ~done
    /\ \E k \in Keys : items[k].present /\ lastOp[k].op = "upsert"

(* C26: in a cache that is never closed, once the event source is closed (and
   the events it had sent are ingested) and every record of the index has
   outlived its TTL, the index eventually is empty and remains empty. *)
C26_Quiescence == (srcClosed /\ eventSub = <<>> /\ AllElapsed) ~> []IndexEmpty

\* The source is closed and the index is empty although the last operation on
\* some key was the insertion of a record: the cleanup removed it.
C26_Witness ==
    /\ srcClosed /\ eventSub = <<>>
    /\ IndexEmpty
    /\ \E k \in Keys : lastOp[k].op = "upsert"

\* The step ingests a Created/Updated event, or a Deleted event, for id.
Upserts(id) ==
    /\ Ingests
    /\ id # NoID
    /\ extractID(Head(eventSub).Payload) = id
    /\ Head(eventSub).Type \in {CreatedEvent, UpdatedEvent}
Deletes(id) ==
    /\ Ingests
    /\ id # NoID
    /\ extractID(Head(eventSub).Payload) = id
    /\ Head(eventSub).Type = DeletedEvent

(* C27: the version a Created/Updated event gives its record is strictly
   greater than every version the cache assigned before (here: than the
   version of every record the index holds when the event is applied), also
   when two events are applied at the same reading of the clock. *)
C27_VersionsStrictlyIncrease ==
    [][\A id \in Keys :
          Upserts(id) =>
              \A k \in Keys : items[k].present => items'[id].version > items[k].version]_vars

(* C28: ItemCount is the number of records of the index, and is never
   negative, whatever events, cleanups, Invalidate calls (with absent or
   repeated ids) and Clear calls came before. *)
C28_ItemCountIsIndexSize ==
    /\ stats.ItemCount = Cardinality(CachedKeys)
    /\ stats.ItemCount >= 0

(* C29: a Created/Updated event for an id that has a record refreshes it in
   place: the data is the payload, the hits are those of the old record, the
   timestamp is now, the version is a new (greater) one, ItemCount does not
   change and no other record changes. *)
C29_RefreshInPlace ==
    [][\A id \in Keys :
          (Upserts(id) /\ items[id].present) =>
              /\ items'[id].present
              /\ items'[id].data = Head(eventSub).Payload
              /\ items'[id].hits = items[id].hits
              /\ items'[id].timestamp = now
              /\ items'[id].version > items[id].version
              /\ stats'.ItemCount = stats.ItemCount
              /\ \A k \in Keys \ {id} : items'[k] = items[k]]_vars

(* C30: a Deleted event for an id that has a record removes the record and
   decrements ItemCount by one; for an id that has none it changes neither
   the index nor any statistic.  No other record changes in either case. *)
C30_DeletedRemovesOrNothing ==
    [][\A id \in Keys :
          Deletes(id) =>
              IF items[id].present
              THEN /\ ~items'[id].present
                   /\ stats' = [stats EXCEPT !.ItemCount = @ - 1]
                   /\ \A k \in Keys \ {id} : items'[k] = items[k]
              ELSE /\ items' = items
                   /\ stats' = stats]_vars

\* A Get read the record of "a" from the index, and a Deleted event then
\* removed that record.
C30_Witness ==
    /\ lastOp["a"].op = "delete"
    /\ ~items["a"].present
    /\ \E c \in CallIds : /\ calls[c].kind = "get"
                          /\ calls[c].id = "a"
                          /\ calls[c].item.present
                          /\ ~calls[c].live

\* The step is a pass of performCleanup: cleanupRoutine takes the waiting tick.
CleanupPass == tick /\ ~tick' /\ mgr' = mgr

(* C31: a cleanup pass removes exactly the records with now - timestamp > TTL,
   leaves every other record as it was, lowers ItemCount by the number of
   records it removed and sets LastCleanup to the time of the pass. *)
C31_CleanupRemovesExactlyExpired ==
    [][CleanupPass =>
          LET removed == { k \in Keys : Removes(k) } IN
          /\ removed = { k \in Keys : items[k].present /\ now - items[k].timestamp > TTL }
          /\ \A k \in Keys \ removed : items'[k] = items[k]
          /\ stats'.ItemCount = stats.ItemCount - Cardinality(removed)
          /\ stats'.LastCleanup = now]_vars

\* A pass at time 2 removed the record of one key (the last operation on it
\* was its insertion) and left the record of another, whose age is the TTL.
C31_Witness ==
    /\ stats.LastCleanup = now /\ now = MaxTime
    /\ \E k \in Keys : lastOp[k].op = "upsert" /\ ~items[k].present
    /\ \E k \in Keys : items[k].present /\ now - items[k].timestamp = TTL

\* The step in which Get reads c.items[id].
GetLooksUp(c) ==
    calls[c].kind = "get" /\ calls[c].pc = "lookup" /\ calls'[c].pc = "check"

(* C32: once the event source has closed its channel the event routine
   returns, and from then on no record is inserted or refreshed (the index
   changes only by removals), Get and List read the records that remain (List
   takes the unexpired ones), and no value sent carries an error other than
   the usual ErrCacheMiss of a Get. *)
C32_ClosedSourceFreezesIndex ==
    /\ srcClosed ~> (evPc = "exit")
    /\ [][evPc = "exit" =>
            /\ \A k \in Keys :
                   items'[k].present =>
                       /\ items[k].present
                       /\ items'[k].data = items[k].data
                       /\ items'[k].timestamp = items[k].timestamp
                       /\ items'[k].version = items[k].version
            /\ \A c \in CallIds :
                   /\ (calls[c].kind = "list" /\ TakesSnapshot(c))
                          => calls'[c].results = Unexpired
                   /\ (GetLooksUp(c) /\ calls[c].id \in Keys)
                          => /\ calls'[c].item.present = items[calls[c].id].present
                             /\ calls'[c].item.data = items[calls[c].id].data
                   /\ Sends(c) =>
                          Sent(c).err = IF calls[c].kind = "get" /\ ~Sent(c).cached
                                        THEN ErrCacheMiss ELSE ErrNil]_vars

\* The source is closed and the event routine has returned; a List has sent
\* a snapshot that held a record, and the cleanup has since emptied the index.
C32_Witness ==
    /\ srcClosed /\ evPc = "exit"
    /\ \E c \in CallIds : /\ calls[c].kind = "list"
                          /\ Emitted(c) # <<>>
                          /\ Emitted(c)[1].data # {}
                          /\ Emitted(c)[1].err = ErrNil
    /\ IndexEmpty
    /\ \E k \in Keys : lastOp[k].op = "upsert"

\* The step in which Get counts its hit: item.hits++ and HitCount++.
GetCountsHit(c) ==
    calls[c].kind = "get" /\ calls[c].pc = "hit" /\ calls'[c].pc = "sendHit"

(* C33: no hit is lost: when a Get counts the hit it is about to serve with
   cached = true, the record the index holds for its id (the record the Get
   looked up, or a refresh of it: the one looked up has not expired) has one
   hit more after the step. *)
C33_NoHitLost ==
    [][\A c \in CallIds :
          (/\ GetCountsHit(c)
           /\ items[calls[c].id].present
           /\ ~isExpired(calls[c].item, now))
          => items'[calls[c].id].hits = items[calls[c].id].hits + 1]_vars

\* The step is a section of the producer of c that runs between a Lock or
\* RLock of c.mu and its Unlock: the lookup, the counting of a hit or a miss,
\* the loop of List over the index.
MissCounted(c) ==
    calls[c].kind = "get" /\ calls[c].pc = "miss" /\ calls'[c].pc = "sendMiss"
UnderLock(c) ==
    GetLooksUp(c) \/ GetCountsHit(c) \/ MissCounted(c) \/ TakesSnapshot(c)

\* The step sends on the channel List returned to Query.
InnerSends(c) == Len(calls'[c].innerBuf) > Len(calls[c].innerBuf)

(* C34: no send on a result channel is made while c.mu is held: a step of
   Get, List or Query that sends (on the channel of the caller, or on the
   channel between List and Query) is not a locked section of the call and
   changes neither the index nor the statistics. *)
C34_NoSendUnderLock ==
    [][\A c \in CallIds :
          (Sends(c) \/ InnerSends(c)) =>
              /\ ~UnderLock(c)
              /\ UNCHANGED <<items, stats>>]_vars

\* A Get has counted its hit and then sent the record with cached = true.
C34_Witness ==
    /\ stats.HitCount = 1
    /\ \E c \in CallIds : /\ calls[c].kind = "get"
                          /\ Emitted(c) # <<>>
                          /\ Emitted(c)[1].cached
                          /\ items[calls[c].id].present
                          /\ items[calls[c].id].hits = 1

\* The event at the head of the subscription was sent by the source after
\* Close had returned on the cache.
DeliveredAfterClose ==
    /\ done
    /\ eventSub # <<>>
    /\ published - Len(eventSub) >= mgr.closedAt

(* C35: once Close has returned on a stream cache, no event the event source
   sends afterwards is applied to the index: a step of the event routine that
   ingests such an event changes neither the content of the index nor
   ItemCount. *)
C35_NoIngestAfterClose ==
    [][(Ingests /\ DeliveredAfterClose) =>
          /\ items' = items
          /\ stats'.ItemCount = stats.ItemCount]_vars

(* C37: a call of Manager.Start on a Manager that was given no message
   service (nil) and is not started returns without a panic, and leaves the
   Manager started with the caches built. *)
C37_StartWithoutMessageService ==
    [][(StartCall /\ ~mgr.started /\ ~mgr.messageService) =>
          /\ ~crashed'
          /\ mgr'.started
          /\ mgr'.gen = mgr.gen + 1
          /\ evPc' = "run" /\ clPc' = "run"]_vars

\* Every filter of the list names a field no entity has, and there is one.
NamesUnknownFields(filters) ==
    /\ filters # <<>>
    /\ \A i \in 1..Len(filters), ev \in Events : ~HasField(ev.Payload, filters[i].Field)

(* C36: a filter that names a field the entity does not have excludes no
   record: the snapshot of a List/Query whose filters all name unknown fields
   is every unexpired record, which is the snapshot a list with no filters
   takes in the same state. *)
C36_UnknownFieldIsSkipped ==
    [][\A c \in CallIds :
          (TakesSnapshot(c) /\ NamesUnknownFields(calls[c].filters)) =>
              /\ calls'[c].results = Unexpired
              /\ calls'[c].results = ListResults(items, now, <<>>)]_vars

\* A list whose only filter names the unknown field "role" with the value
\* "user" took a snapshot that holds a record whose Role is "assistant".
C36_Witness ==
    \E c \in CallIds :
        /\ calls[c].kind = "list" /\ calls[c].pc # "snapshot"
        /\ NamesUnknownFields(calls[c].filters)
        /\ \E d \in calls[c].results : d.Role = "assistant"

(* C38: the ContextCache changes its entry map only with cc.mu held
   exclusively: whatever the interleaving of Get, Set, Delete, Clear, Cleanup
   and Invalidate calls, a step that removes or writes an entry is taken while
   no goroutine holds the read lock (a Get that finds an expired entry
   included), and the process is never stopped for a concurrent map access. *)
C38_MapChangedOnlyUnderExclusiveLock ==
    [][/\ cc'.cache # cc.cache => cc.readers = {}
       /\ ~cc'.fatal]_vars

====
